---- MODULE Spec2Model ----
(***************************************************************************)
(* Model of src/hotwheel_scrape.py: the per-unit scraper scrape_url, the   *)
(* threaded batch create_csv_files, the merger create_combined_csv_file    *)
(* and main.                                                               *)
(*                                                                         *)
(* Library behaviour assumed (pandas 2.x, requests, concurrent.futures):   *)
(*   - DataFrame.stack() walks the table row by row and drops missing      *)
(*     cells (the default of the pandas 2 implementation);                 *)
(*   - sort_values / sorted order strings by code point;                   *)
(*   - Series.replace(dict) rewrites a value only when the whole value is  *)
(*     a key of the dict;                                                  *)
(*   - DataFrame.groupby drops rows whose key is missing and orders the    *)
(*     groups by key;                                                      *)
(*   - requests.get without a timeout may never return.                    *)
(* Cells are text (names); a missing cell is NaN.                          *)
(* The thread pool has at least five workers (min(32, cpu + 4)), more than *)
(* the units modelled, so a submitted unit never waits for a free worker.  *)
(* The file system calls of create_combined_csv_file, which the function   *)
(* does not guard, succeed.                                                *)
(***************************************************************************)
EXTENDS Integers, Sequences, FiniteSets, TLC

\* ------------------------------------------------------------------ bounds

\* Largest number of cells of a table handed to a direct scrape_url call.
MaxCells == 4
\* Number of year units and of series units of a full run (prefixes of the
\* lists of create_years_dict and create_series_dict).
NumYears == 3
NumSeries == 2
\* Largest number of rows, over both tables, handed to a direct merger call.
MaxMergeRows == 3

\* ------------------------------------------------------------- option type

\* Python's None, an absent file: the empty tuple; a present value x: <<x>>.
None == <<>>
Some(x) == <<x>>
IsSome(o) == Len(o) = 1
Get(o) == o[1]

\* A missing cell (numpy.nan).
NaN == "NaN"

\* ------------------------------------------------------------------ strings

\* The code points of the strings the model uses: Python orders str values by
\* code point.
Ord(s) ==
  CASE s = "Mongoose 2" -> <<77, 111, 110, 103, 111, 111, 115, 101, 32, 50>>
  [] s = "Snake 2" -> <<83, 110, 97, 107, 101, 32, 50>>
  [] s = "Mongoose II Funny Car" -> <<77, 111, 110, 103, 111, 111, 115, 101, 32, 73, 73, 32, 70, 117, 110, 110, 121, 32, 67, 97, 114>>
  [] s = "Snake II Funny Car" -> <<83, 110, 97, 107, 101, 32, 73, 73, 32, 70, 117, 110, 110, 121, 32, 67, 97, 114>>
  [] s = "Mongoose Funny Car" -> <<77, 111, 110, 103, 111, 111, 115, 101, 32, 70, 117, 110, 110, 121, 32, 67, 97, 114>>
  [] s = "Snake Funny Car" -> <<83, 110, 97, 107, 101, 32, 70, 117, 110, 110, 121, 32, 67, 97, 114>>
  [] s = "Mongoose Funny Rail Dragster" -> <<77, 111, 110, 103, 111, 111, 115, 101, 32, 70, 117, 110, 110, 121, 32, 82, 97, 105, 108, 32, 68, 114, 97, 103, 115, 116, 101, 114>>
  [] s = "Alive 55" -> <<65, 108, 105, 118, 101, 32, 53, 53>>
  [] s = "King Cuda" -> <<75, 105, 110, 103, 32, 67, 117, 100, 97>>
  [] s = "Grasshopper" -> <<71, 114, 97, 115, 115, 104, 111, 112, 112, 101, 114>>
  [] s = "Mongoose II" -> <<77, 111, 110, 103, 111, 111, 115, 101, 32, 73, 73>>
  [] s = "Snake II" -> <<83, 110, 97, 107, 101, 32, 73, 73>>
  [] s = "Mongoose" -> <<77, 111, 110, 103, 111, 111, 115, 101>>
  [] s = "Snake" -> <<83, 110, 97, 107, 101>>
  [] s = "Mongoose Rail Dragster" -> <<77, 111, 110, 103, 111, 111, 115, 101, 32, 82, 97, 105, 108, 32, 68, 114, 97, 103, 115, 116, 101, 114>>
  [] s = "Alive '55" -> <<65, 108, 105, 118, 101, 32, 39, 53, 53>>
  [] s = "King 'Cuda" -> <<75, 105, 110, 103, 32, 39, 67, 117, 100, 97>>
  [] s = "Grass Hopper" -> <<71, 114, 97, 115, 115, 32, 72, 111, 112, 112, 101, 114>>
  [] s = "1968" -> <<49, 57, 54, 56>>
  [] s = "1969" -> <<49, 57, 54, 57>>
  [] s = "1970" -> <<49, 57, 55, 48>>
  [] s = "1971" -> <<49, 57, 55, 49>>
  [] s = "1972" -> <<49, 57, 55, 50>>
  [] s = "1973" -> <<49, 57, 55, 51>>
  [] s = "1974" -> <<49, 57, 55, 52>>
  [] s = "1975" -> <<49, 57, 55, 53>>
  [] s = "1976" -> <<49, 57, 55, 54>>
  [] s = "1977" -> <<49, 57, 55, 55>>
  [] s = "customs" -> <<99, 117, 115, 116, 111, 109, 115>>
  [] s = "gran_prix" -> <<103, 114, 97, 110, 95, 112, 114, 105, 120>>
  [] s = "heavyweights" -> <<104, 101, 97, 118, 121, 119, 101, 105, 103, 104, 116, 115>>
  [] s = "spoilers" -> <<115, 112, 111, 105, 108, 101, 114, 115>>
  [] s = "super_chromes" -> <<115, 117, 112, 101, 114, 95, 99, 104, 114, 111, 109, 101, 115>>
  [] s = "snake_mongoose" -> <<115, 110, 97, 107, 101, 95, 109, 111, 110, 103, 111, 111, 115, 101>>
  [] s = "classics" -> <<99, 108, 97, 115, 115, 105, 99, 115>>

Min(a, b) == IF a < b THEN a ELSE b

\* a < b for tuples of code points: the first differing position decides, a
\* proper prefix is the smaller.
TupleLess(a, b) ==
  \/ \E i \in 1..Min(Len(a), Len(b)) :
        /\ a[i] < b[i]
        /\ \A j \in 1..(i - 1) : a[j] = b[j]
  \/ /\ Len(a) < Len(b)
     /\ \A j \in 1..Len(a) : a[j] = b[j]

\* Python's a < b on str.
StrLess(a, b) == TupleLess(Ord(a), Ord(b))

\* Python's sorted(set(...)): the members of S in ascending order.
RECURSIVE sorted(_)
sorted(S) ==
  IF S = {} THEN <<>>
  ELSE LET m == CHOOSE x \in S : \A y \in S \ {x} : StrLess(x, y)
       IN <<m>> \o sorted(S \ {m})

\* The members of a sequence, as a set.
Range(s) == {s[i] : i \in 1..Len(s)}

\* ------------------------------------------------------------------- tables

\* A parsed HTML table (a pandas DataFrame as read_html returns it): ncols
\* columns and the rows of cells under the header; a cell is a name or NaN.
\* A DataFrame of the pipeline: its columns and its rows, each row a record
\* over the columns.
MakeGrid(n, rs) == [ncols |-> n, rows |-> rs]

\* pd.DataFrame(): no columns, no rows.
DataFrame == [columns |-> {}, rows |-> <<>>]

\* The values of column c of a DataFrame, top to bottom.
Column(df, c) == [i \in 1..Len(df.rows) |-> df.rows[i][c]]

\* ---------------------------------------------------------------- normalizer

\* Faulty variant of Blank: the first column is blanked instead of the second.
BlankFirst(grid) ==
  MakeGrid(grid.ncols,
           [i \in 1..Len(grid.rows) |->
              [j \in 1..grid.ncols |-> IF j = 1 THEN NaN ELSE grid.rows[i][j]]])

\* df.iloc[:, 1] = np.nan: every cell of the second column becomes NaN.
Blank(grid) ==
  MakeGrid(grid.ncols,
           [i \in 1..Len(grid.rows) |->
              [j \in 1..grid.ncols |-> IF j = 2 THEN NaN ELSE grid.rows[i][j]]])

RECURSIVE Flatten(_)
Flatten(rows) ==
  IF rows = <<>> THEN <<>> ELSE Head(rows) \o Flatten(Tail(rows))

\* df.stack().reset_index(drop=True): the cells row by row, left to right,
\* without the missing ones.
Stack(grid) == SelectSeq(Flatten(grid.rows), LAMBDA c : c # NaN)

\* df.sort_values(by=main_column_name): ascending.
SortValues(names) == SortSeq(names, StrLess)

\* Faulty variant of rename_map: one alias is rewritten to another alias.
rename_map_chained ==
  ("Mongoose 2" :> "Mongoose II") @@
  ("Snake 2" :> "Snake II") @@
  ("Mongoose II Funny Car" :> "Mongoose II") @@
  ("Snake II Funny Car" :> "Snake II") @@
  ("Mongoose Funny Car" :> "Mongoose 2") @@
  ("Snake Funny Car" :> "Snake") @@
  ("Mongoose Funny Rail Dragster" :> "Mongoose Rail Dragster") @@
  ("Alive 55" :> "Alive '55") @@
  ("King Cuda" :> "King 'Cuda") @@
  ("Grasshopper" :> "Grass Hopper")

rename_map ==
  ("Mongoose 2" :> "Mongoose II") @@
  ("Snake 2" :> "Snake II") @@
  ("Mongoose II Funny Car" :> "Mongoose II") @@
  ("Snake II Funny Car" :> "Snake II") @@
  ("Mongoose Funny Car" :> "Mongoose") @@
  ("Snake Funny Car" :> "Snake") @@
  ("Mongoose Funny Rail Dragster" :> "Mongoose Rail Dragster") @@
  ("Alive 55" :> "Alive '55") @@
  ("King Cuda" :> "King 'Cuda") @@
  ("Grasshopper" :> "Grass Hopper")

\* Series.replace(rename_map): a value that is a key of the map becomes the
\* key's value, every other value stays.
Replace(names) ==
  [i \in 1..Len(names) |->
     IF names[i] \in DOMAIN rename_map THEN rename_map[names[i]] ELSE names[i]]

\* Faulty variant of DropDuplicates: only a value equal to the one right before it is
\* dropped (enough on a sorted column, not on a rewritten one).
RECURSIVE DropAdjacentDuplicates(_)
DropAdjacentDuplicates(names) ==
  IF Len(names) < 2 THEN names
  ELSE LET front == DropAdjacentDuplicates(SubSeq(names, 1, Len(names) - 1))
           last == names[Len(names)]
       IN IF last = names[Len(names) - 1] THEN front ELSE Append(front, last)

\* df.drop_duplicates(): the first occurrence of every value, in order.
RECURSIVE DropDuplicates(_)
DropDuplicates(names) ==
  IF names = <<>> THEN <<>>
  ELSE LET front == DropDuplicates(SubSeq(names, 1, Len(names) - 1))
           last == names[Len(names)]
       IN IF last \in Range(front) THEN front ELSE Append(front, last)

\* "snake_mongoose" in outfile. Output paths are OUTPUT_DIR/hotwheels-<label>.csv
\* and are represented by their label; of the labels used only this one
\* contains the text.
IsSnakeMongoose(outfile) == outfile = "snake_mongoose"

\* Lines 74-91 of scrape_url on the selected table: stack, sort, rewrite,
\* drop duplicates.
Normalize(grid) == DropDuplicates(Replace(SortValues(Stack(grid))))

\* The one-column DataFrame scrape_url builds from the names.
ToFrame(names, main_column_name) ==
  [columns |-> {main_column_name},
   rows |-> [i \in 1..Len(names) |-> [c \in {main_column_name} |-> names[i]]]]

\* ---------------------------------------------------------------- scrape_url

\* The classes an exception is an instance of.
Bases(exc) ==
  CASE exc = "Timeout" -> {"Timeout", "RequestException", "OSError", "Exception"}
  [] exc = "HTTPError" -> {"HTTPError", "RequestException", "OSError", "Exception"}
  [] exc = "ValueError" -> {"ValueError", "Exception"}
  [] exc = "IndexError" -> {"IndexError", "LookupError", "Exception"}
  [] exc = "PermissionError" -> {"PermissionError", "OSError", "Exception"}
  [] exc = "Exception" -> {"Exception"}

\* Faulty variant of Handler: the last clause, except Exception, is missing.
HandlerNoCatchAll(exc) ==
  IF "RequestException" \in Bases(exc) THEN "Error fetching the URL"
  ELSE IF "ValueError" \in Bases(exc) THEN "ValueError"
  ELSE "propagate"

\* The except clauses of scrape_url, first match wins: the message logged, or
\* "propagate" when no clause matches.
Handler(exc) ==
  IF "RequestException" \in Bases(exc) THEN "Error fetching the URL"
  ELSE IF "ValueError" \in Bases(exc) THEN "ValueError"
  ELSE IF "Exception" \in Bases(exc) THEN "Unexpected error"
  ELSE "propagate"

\* The statement `stage` of the try block raised exc after logging `log`.
Raised(exc, stage, log) ==
  [ret |-> None, file |-> None, stage |-> stage, exc |-> exc,
   raised |-> Handler(exc) = "propagate",
   log |-> IF Handler(exc) = "propagate" THEN log ELSE Append(log, Handler(exc))]

\* scrape_url(url, table_index, outfile, main_column_name). env is what the
\* world answers: env.fetch the outcome of requests.get and raise_for_status,
\* env.page the page served, env.makedirs and env.to_csv the outcome of the two
\* file system calls. The result: the value returned, the file written, the
\* last statement reached, the exception raised inside the try block, whether
\* an exception left the function, and the messages logged.
scrape_url(env, table_index, outfile, main_column_name) ==
  LET log1 == <<"Fetching URL">>
      tables == env.page.tables
  IN
  IF env.fetch \in {"Timeout", "Exception"} THEN Raised(env.fetch, "get", log1)
  ELSE IF env.fetch = "HTTPError" THEN Raised("HTTPError", "raise_for_status", log1)
  ELSE IF ~env.page.has_table
    THEN Raised("ValueError", "find", Append(log1, "No table found"))
  ELSE IF tables = <<>> THEN Raised("ValueError", "read_html", log1)
  ELSE IF table_index + 1 > Len(tables) THEN Raised("IndexError", "index", log1)
  ELSE
    LET df0 == tables[table_index + 1] IN
    IF IsSnakeMongoose(outfile) /\ df0.ncols < 2 THEN Raised("IndexError", "iloc", log1)
    ELSE
      LET df1 == IF IsSnakeMongoose(outfile) THEN Blank(df0) ELSE df0
          df == ToFrame(Normalize(df1), main_column_name)
      IN
      IF env.makedirs # "ok" THEN Raised(env.makedirs, "makedirs", log1)
      ELSE IF env.to_csv # "ok" THEN Raised(env.to_csv, "to_csv", log1)
      ELSE [ret |-> Some(df), file |-> Some(df), stage |-> "return",
            exc |-> "none", raised |-> FALSE,
            log |-> Append(log1, "Data saved")]

\* ---------------------------------------------------------- create_csv_files

\* create_years_dict(): the years "1968".."1977" and the table index of each.
create_years_dict ==
  [labels |-> <<"1968", "1969", "1970", "1971", "1972", "1973", "1974", "1975",
                "1976", "1977">>,
   table_index |-> <<0, 0, 1, 0, 0, 0, 0, 0, 0, 0>>]

\* create_series_dict(): the seven series, all with table index 0.
create_series_dict ==
  [labels |-> <<"customs", "gran_prix", "heavyweights", "spoilers",
                "super_chromes", "snake_mongoose", "classics">>,
   table_index |-> <<0, 0, 0, 0, 0, 0, 0>>]

\* The two batches of main, named by their dict_key.
Batches == {"Year", "Series"}

\* The group dictionary of a batch, cut to the first NumYears / NumSeries units.
data_dict(b) ==
  LET d == IF b = "Year" THEN create_years_dict ELSE create_series_dict
      n == IF b = "Year" THEN NumYears ELSE NumSeries
  IN [labels |-> SubSeq(d.labels, 1, n), table_index |-> SubSeq(d.table_index, 1, n)]

\* A unit <<b, i>>: the i-th row of zip(*data_dict.values()) of batch b.
UnitsOf(b) == {<<b, i>> : i \in 1..Len(data_dict(b).labels)}
Units == UnitsOf("Year") \cup UnitsOf("Series")

\* Faulty variant of future_dict: every future is mapped to the label of the last row
\* of the loop (the loop variable read after the loop).
future_dict_last(u) == data_dict(u[1]).labels[Len(data_dict(u[1]).labels)]

\* future_dict[future]: the label of the row the future was submitted for.
future_dict(u) == data_dict(u[1]).labels[u[2]]

\* df[dict_key] = label: a new column holding the label in every row.
Tag(df, dict_key, label) ==
  [columns |-> df.columns \cup {dict_key},
   rows |-> [i \in 1..Len(df.rows) |->
               [c \in df.columns \cup {dict_key} |->
                  IF c = dict_key THEN label ELSE df.rows[i][c]]]]

\* pd.concat(dfs, ignore_index=True): the rows of the frames in order, over
\* the union of their columns, NaN where a frame lacks a column.
RECURSIVE concat(_)
concat(dfs) ==
  IF dfs = <<>> THEN DataFrame
  ELSE LET rest == concat(Tail(dfs))
           cols == Head(dfs).columns \cup rest.columns
           Widen(r) == [c \in cols |-> IF c \in DOMAIN r THEN r[c] ELSE NaN]
       IN [columns |-> cols,
           rows |-> [i \in 1..Len(Head(dfs).rows) |-> Widen(Head(dfs).rows[i])]
                    \o [i \in 1..Len(rest.rows) |-> Widen(rest.rows[i])]]

\* Faulty variant of CombinedFrame: an empty list yields an empty frame that still has
\* the two columns.
CombinedFrameWithColumns(all, main_column_name, dict_key) ==
  IF all # <<>> THEN concat(all)
  ELSE [columns |-> {main_column_name, dict_key}, rows |-> <<>>]

\* The return value of create_csv_files:
\* pd.concat(all_df, ignore_index=True) if all_df else pd.DataFrame().
CombinedFrame(all, main_column_name, dict_key) ==
  IF all # <<>> THEN concat(all) ELSE DataFrame

\* --------------------------------------------------- create_combined_csv_file

\* Faulty variant of ExpectedColumns: the label columns are not required.
ExpectedColumnsNameOnly(main_column_name) == {main_column_name}

\* expected_columns.
ExpectedColumns(main_column_name) == {main_column_name, "Year", "Series"}

\* Faulty variant of Agg: the distinct labels in row order, not sorted.
AggInRowOrder(rows, column) ==
  DropDuplicates(SelectSeq([i \in 1..Len(rows) |-> rows[i][column]],
                           LAMBDA v : v # NaN))

\* lambda x: sorted(set(x.dropna())) on one column of the rows of a group.
Agg(rows, column) == sorted({rows[i][column] : i \in 1..Len(rows)} \ {NaN})

\* create_combined_csv_file(main_column_name, all_years_df, all_series_df): the
\* content of redlines.csv and of redlines.json (None: not written), whether
\* an exception left the function, and the messages logged. groupby and agg
\* raise KeyError for a column the frame lacks. The two files hold the same
\* records; the content is kept as the sequence of records.
create_combined_csv_file(main_column_name, all_years_df, all_series_df) ==
  LET combined_columns == all_years_df.columns \cup all_series_df.columns
      both == concat(<<all_years_df, all_series_df>>)
      keys == {both.rows[i][main_column_name] : i \in 1..Len(both.rows)} \ {NaN}
      names == sorted(keys)
      Group(k) == SelectSeq(both.rows, LAMBDA r : r[main_column_name] = k)
      catalog == [i \in 1..Len(names) |->
                    [c \in {main_column_name, "Year", "Series"} |->
                       IF c = main_column_name THEN names[i]
                       ELSE Agg(Group(names[i]), c)]]
  IN
  IF ~(ExpectedColumns(main_column_name) \subseteq combined_columns)
    THEN [csv |-> None, json |-> None, raised |-> FALSE,
          log |-> <<"Missing expected columns">>]
  ELSE IF ~({main_column_name, "Year", "Series"} \subseteq both.columns)
    THEN [csv |-> None, json |-> None, raised |-> TRUE, log |-> <<>>]
  ELSE [csv |-> Some(catalog), json |-> Some(catalog), raised |-> FALSE,
        log |-> <<"CSV saved", "JSON saved">>]

\* -------------------------------------------------------------------- state

VARIABLES
  call,          \* a direct call of scrape_url or create_combined_csv_file: its arguments
  outcome,       \* None before the call, Some(result) after it
  batch,         \* batch[b]: "pending", "running" or "returned" (create_csv_files)
  future,        \* future[u]: state, result and exception of the unit's future
  all_df,        \* all_df[b]: the tagged frames collected so far
  aborted,       \* aborted[b]: future.result() raised inside the collecting loop
  table,         \* table[b]: the frame create_csv_files returned (all_years_df, all_series_df)
  exports,       \* exports[u]: the content of hotwheels-<label>.csv, None when absent
  redlines_csv,  \* the content of redlines.csv, None when absent
  redlines_json, \* the content of redlines.json, None when absent
  main_pc        \* main: "pool", "done" or "raised"

vars == <<call, outcome, batch, future, all_df, aborted, table, exports,
          redlines_csv, redlines_json, main_pc>>

direct_vars == <<call, outcome>>
run_vars == <<batch, future, all_df, aborted, table, exports, redlines_csv,
              redlines_json, main_pc>>

\* main_column_name of main.
Casting == "Casting"

\* --------------------------------------------------------- the world outside

NoTablePage == [has_table |-> FALSE, tables |-> <<>>]
EmptyTablePage == [has_table |-> TRUE, tables |-> <<>>]

\* Tables of the pages the site serves in a full run.
GridA == MakeGrid(1, << <<"Snake">>, <<"Mongoose 2">> >>)
GridB == MakeGrid(1, << <<"Snake">> >>)
SitePages ==
  {NoTablePage,
   [has_table |-> TRUE, tables |-> <<GridA>>],
   [has_table |-> TRUE, tables |-> <<GridB, GridA>>]}

\* What the world answers to one unit of a full run.
SiteEnvs ==
  [fetch : {"ok", "Timeout"}, page : SitePages,
   makedirs : {"ok", "PermissionError"}, to_csv : {"ok"}]

\* ---------------------------------------------------------------- full run

\* pool.map blocks until its batch has returned: the years batch starts first,
\* the series batch after the years batch returned.
MayStart(b) ==
  IF b = "Year" THEN TRUE ELSE batch["Year"] = "returned"

InitRun ==
  /\ batch = [b \in Batches |-> "pending"]
  /\ future = [u \in Units |-> [state |-> "none", result |-> None, exception |-> FALSE]]
  /\ all_df = [b \in Batches |-> <<>>]
  /\ aborted = [b \in Batches |-> FALSE]
  /\ table = [b \in Batches |-> None]
  /\ exports = [u \in Units |-> None]
  /\ redlines_csv = None
  /\ redlines_json = None
  /\ main_pc = "pool"

Init ==
  /\ call = None
  /\ outcome = None
  /\ InitRun

\* main is at the pool.map call of batch b.
CanStartBatch(b) ==
  /\ main_pc = "pool"
  /\ batch[b] = "pending"
  /\ MayStart(b)

\* main hands the batch to the pool; create_csv_files submits one future per
\* row of the group dictionary.
StartBatch(b) ==
  /\ CanStartBatch(b)
  /\ batch' = [batch EXCEPT ![b] = "running"]
  /\ future' = [u \in Units |->
                  IF u \in UnitsOf(b) THEN [future[u] EXCEPT !.state = "submitted"]
                  ELSE future[u]]
  /\ UNCHANGED <<direct_vars, all_df, aborted, table, exports, redlines_csv,
                 redlines_json, main_pc>>

\* The unit waits in the executor's queue.
CanStartUnit(u) == future[u].state = "submitted"

\* The unit's thread is inside scrape_url, with a fetch that returns.
CanFinishUnit(u) == future[u].state = "running"

\* The as_completed loop of the unit's batch is running and the unit's future
\* is done and not yet yielded.
CanCollect(u) ==
  /\ batch[u[1]] = "running"
  /\ ~aborted[u[1]]
  /\ future[u].state = "finished"

\* The loop of batch b is over (every future was yielded, or the except clause
\* was entered) and the executor's shutdown, which waits for every thread, is
\* through.
CanReturnBatch(b) ==
  /\ batch[b] = "running"
  /\ \/ \A u \in UnitsOf(b) : future[u].state = "collected"
     \/ /\ aborted[b]
        /\ \A u \in UnitsOf(b) : future[u].state \in {"finished", "collected"}

\* Both pool.map calls of main have returned.
CanMerge ==
  /\ main_pc = "pool"
  /\ \A b \in Batches : batch[b] = "returned"

\* A worker thread takes the unit and calls requests.get, which returns
\* ("running") or never does ("hung": no timeout is set).
StartUnit(u) ==
  /\ CanStartUnit(u)
  /\ \E s \in {"running", "hung"} :
        future' = [future EXCEPT ![u].state = s]
  /\ UNCHANGED <<direct_vars, batch, all_df, aborted, table, exports,
                 redlines_csv, redlines_json, main_pc>>

\* thread_target: scrape_url runs to its end and the future is set.
FinishUnit(u) ==
  /\ CanFinishUnit(u)
  /\ \E env \in SiteEnvs :
        LET r == scrape_url(env, data_dict(u[1]).table_index[u[2]],
                            data_dict(u[1]).labels[u[2]], Casting)
        IN /\ future' = [future EXCEPT ![u] = [state |-> "finished",
                                                result |-> r.ret,
                                                exception |-> r.raised]]
           /\ exports' = [exports EXCEPT ![u] = IF IsSome(r.file) THEN r.file ELSE @]
  /\ UNCHANGED <<direct_vars, batch, all_df, aborted, table, redlines_csv,
                 redlines_json, main_pc>>

\* One round of the as_completed loop: a finished future is yielded, and its
\* frame, when there is one, is tagged and appended. future.result() raising
\* ends the loop in the except clause of create_csv_files.
Collect(u) ==
  /\ CanCollect(u)
  /\ future' = [future EXCEPT ![u].state = "collected"]
  /\ IF future[u].exception
       THEN /\ aborted' = [aborted EXCEPT ![u[1]] = TRUE]
            /\ UNCHANGED all_df
       ELSE /\ UNCHANGED aborted
            /\ all_df' = [all_df EXCEPT ![u[1]] =
                 IF IsSome(future[u].result)
                   THEN Append(@, Tag(Get(future[u].result), u[1], future_dict(u)))
                   ELSE @]
  /\ UNCHANGED <<direct_vars, batch, table, exports, redlines_csv,
                 redlines_json, main_pc>>

\* create_csv_files returns the combined frame.
ReturnBatch(b) ==
  /\ CanReturnBatch(b)
  /\ batch' = [batch EXCEPT ![b] = "returned"]
  /\ table' = [table EXCEPT ![b] = Some(CombinedFrame(all_df[b], Casting, b))]
  /\ UNCHANGED <<direct_vars, future, all_df, aborted, exports, redlines_csv,
                 redlines_json, main_pc>>

\* main calls create_combined_csv_file on the two returned frames.
Merge ==
  /\ CanMerge
  /\ LET r == create_combined_csv_file(Casting, Get(table["Year"]), Get(table["Series"]))
     IN /\ redlines_csv' = IF IsSome(r.csv) THEN r.csv ELSE redlines_csv
        /\ redlines_json' = IF IsSome(r.json) THEN r.json ELSE redlines_json
        /\ main_pc' = IF r.raised THEN "raised" ELSE "done"
  /\ UNCHANGED <<direct_vars, batch, future, all_df, aborted, table, exports>>

Next ==
  \/ \E b \in Batches : StartBatch(b)
  \/ \E u \in Units : StartUnit(u)
  \/ \E u \in Units : FinishUnit(u)
  \/ \E u \in Units : Collect(u)
  \/ \E b \in Batches : ReturnBatch(b)
  \/ Merge

Spec == Init /\ [][Next]_vars

\* The executor runs every submitted task, a fetch that returns lets its thread
\* run to the end, the collecting loop and main go on whenever they can. No
\* fairness makes a hung fetch return.
FairSpec ==
  /\ Spec
  /\ \A b \in Batches : WF_vars(StartBatch(b)) /\ WF_vars(ReturnBatch(b))
  /\ \A u \in Units : WF_vars(StartUnit(u)) /\ WF_vars(FinishUnit(u)) /\ WF_vars(Collect(u))
  /\ WF_vars(Merge)

\* ------------------------------------------------- a direct call of scrape_url

\* The names a cell of a drawn table holds: two aliases the synonym table
\* rewrites and the canonical name of the first.
CellNames == {"Mongoose 2", "Mongoose Funny Car", "Mongoose II"}
Cells == CellNames \cup {NaN}

\* Every table of at most MaxCells cells (and the tables without rows).
Grids ==
  UNION {{MakeGrid(c, rs) : rs \in [1..r -> [1..c -> Cells]]} :
           <<r, c>> \in {s \in (0..MaxCells) \X (1..MaxCells) : s[1] * s[2] <= MaxCells}}

\* The pages a direct call is served: without a table element, with an empty
\* one, with one parsed table, with two parsed tables.
Pages ==
  {NoTablePage, EmptyTablePage}
  \cup {[has_table |-> TRUE, tables |-> <<g>>] : g \in Grids}
  \cup {[has_table |-> TRUE, tables |-> <<g, h>>] : g \in {GridA, GridB}, h \in {GridA, GridB}}

ScrapeCalls ==
  [fn : {"scrape_url"}, page : Pages, table_index : {0, 1},
   outfile : {"1970", "snake_mongoose"}]

ScrapeEnvs ==
  [fetch : {"ok", "Timeout", "HTTPError", "Exception"},
   makedirs : {"ok", "PermissionError"}, to_csv : {"ok", "PermissionError"}]

InitScrape ==
  /\ call \in ScrapeCalls
  /\ outcome = None
  /\ InitRun

\* scrape_url(url, table_index, outfile, "Casting") is called once. The
\* outcome keeps, beside the result, what the world answered to the calls that
\* were made ("not reached" for a call that was not).
CallScrapeUrl ==
  /\ outcome = None
  /\ call.fn = "scrape_url"
  /\ \E e \in ScrapeEnvs :
        LET r == scrape_url([fetch |-> e.fetch, page |-> call.page,
                             makedirs |-> e.makedirs, to_csv |-> e.to_csv],
                            call.table_index, call.outfile, Casting)
        IN outcome' = Some(
             [ret |-> r.ret, file |-> r.file, stage |-> r.stage, exc |-> r.exc,
              raised |-> r.raised, log |-> r.log, fetch |-> e.fetch,
              makedirs |-> IF r.stage \in {"makedirs", "to_csv", "return"}
                             THEN e.makedirs ELSE "not reached",
              to_csv |-> IF r.stage \in {"to_csv", "return"}
                           THEN e.to_csv ELSE "not reached"])
  /\ UNCHANGED <<call, run_vars>>

SpecScrape == InitScrape /\ [][CallScrapeUrl]_vars

\* ----------------------------------- a direct call of create_combined_csv_file

\* The values of the columns of a drawn frame.
ColumnValues(c) ==
  IF c = Casting THEN {"Mongoose", "Snake"}
  ELSE IF c = "Year" THEN {"1968", "1969"}
  ELSE {"classics", "customs"}

\* In a frame that has both label columns a row has at most the one label
\* drawn here per kind, or none.
WideValues(c) ==
  IF c = Casting THEN {"Mongoose", "Snake"}
  ELSE IF c = "Year" THEN {"1968", NaN}
  ELSE {"classics", NaN}

ColumnSets ==
  {{}, {Casting}, {Casting, "Year"}, {Casting, "Series"}, {Casting, "Year", "Series"}}

\* The frames of n rows: a frame without columns has no rows.
Frames(n) ==
  UNION {{[columns |-> cols, rows |-> rs] :
            rs \in [1..n -> {r \in [cols -> UNION {ColumnValues(c) \cup WideValues(c) : c \in cols}] :
                               \A c \in cols :
                                  r[c] \in (IF cols = {Casting, "Year", "Series"}
                                              THEN WideValues(c) ELSE ColumnValues(c))}]} :
           cols \in {cs \in ColumnSets : cs # {} \/ n = 0}}

\* The two frames of a direct call have at most MaxMergeRows rows together.
InitMerge ==
  /\ \E n \in 0..MaxMergeRows : \E m \in 0..(MaxMergeRows - n) :
        \E y \in Frames(n) : \E s \in Frames(m) :
           call = [fn |-> "create_combined_csv_file", years |-> y, series |-> s]
  /\ outcome = None
  /\ InitRun

\* create_combined_csv_file("Casting", years, series) is called once.
CallCreateCombinedCsvFile ==
  /\ outcome = None
  /\ call.fn = "create_combined_csv_file"
  /\ outcome' = Some(create_combined_csv_file(Casting, call.years, call.series))
  /\ UNCHANGED <<call, run_vars>>

SpecMerge == InitMerge /\ [][CallCreateCombinedCsvFile]_vars

\* ------------------------------------------------------ claims on scrape_url

\* The direct call of scrape_url has been made.
ScrapeDone == IsSome(outcome) /\ call.fn = "scrape_url"

\* The call returned a frame.
ScrapeSucceeded == ScrapeDone /\ IsSome(Get(outcome).ret)

\* The parsed table the call selects, and its cells that are not missing.
SelectedGrid == call.page.tables[call.table_index + 1]
CellsOf(grid) == Range(Flatten(grid.rows)) \ {NaN}

\* The names of the frame returned, top to bottom.
ReturnedNames == Column(Get(Get(outcome).ret), Casting)

\* The messages the except clauses log.
ErrorMessages == {"Error fetching the URL", "ValueError", "Unexpected error"}

\* Something in the unit failed: the fetch, the status, the table element, the
\* parse, the table index, the directory creation or the file write.
UnitFailed ==
  \/ Get(outcome).fetch # "ok"
  \/ ~call.page.has_table
  \/ call.page.tables = <<>>
  \/ call.table_index >= Len(call.page.tables)
  \/ Get(outcome).makedirs = "PermissionError"
  \/ Get(outcome).to_csv = "PermissionError"

\* C1: scrape_url never raises. Whenever the fetch, the HTTP status, the table
\* lookup, the parse, the table index, the directory creation or the file
\* write fails, it logs an error and returns None; it returns a frame only
\* when fetch, extraction and both file system calls succeeded, and then the
\* file holds that frame.
C1_ScrapeUrlNeverRaises ==
  ScrapeDone =>
    /\ ~Get(outcome).raised
    /\ UnitFailed =>
         /\ Get(outcome).ret = None
         /\ Get(outcome).log[Len(Get(outcome).log)] \in ErrorMessages
    /\ IsSome(Get(outcome).ret) =>
         /\ ~UnitFailed
         /\ Get(outcome).fetch = "ok"
         /\ Get(outcome).makedirs = "ok"
         /\ Get(outcome).to_csv = "ok"
         /\ Get(outcome).exc = "none"
         /\ Get(outcome).file = Get(outcome).ret

\* C1 witness: the table index is out of range (an exception only the last
\* except clause catches) and the call returned None.
C1_Witness ==
  /\ ScrapeDone
  /\ Get(outcome).exc = "IndexError"
  /\ Get(outcome).stage = "index"
  /\ Get(outcome).ret = None

\* The canonical name of a raw cell: the synonym table's value when the whole
\* cell is a key of it, the cell itself otherwise.
CanonicalName(c) == IF c \in DOMAIN rename_map THEN rename_map[c] ELSE c

\* C4: for a unit other than snake_mongoose, the names written and returned
\* are exactly the canonical names of the non-empty cells of the table, each
\* exactly once.
C4_ExactlyTheCanonicalNames ==
  (ScrapeSucceeded /\ call.outfile # "snake_mongoose") =>
    /\ Range(ReturnedNames) = {CanonicalName(c) : c \in CellsOf(SelectedGrid)}
    /\ Cardinality(Range(ReturnedNames)) = Len(ReturnedNames)
    /\ Get(outcome).file = Get(outcome).ret

\* C4 witness: two different aliases of one canonical name and that name
\* itself sit in the table, and the export holds the name once.
C4_Witness ==
  /\ ScrapeSucceeded
  /\ call.outfile # "snake_mongoose"
  /\ {"Mongoose 2", "Mongoose Funny Car", "Mongoose II"} \subseteq CellsOf(SelectedGrid)
  /\ ReturnedNames = <<"Mongoose II", "Mongoose">>

\* C5: the names of the export are in ascending order, each less than the
\* next.
C5_ExportAscending ==
  ScrapeSucceeded =>
    \A i \in 1..(Len(ReturnedNames) - 1) : StrLess(ReturnedNames[i], ReturnedNames[i + 1])

\* The table without its second column.
WithoutSecondColumn(grid) ==
  MakeGrid(grid.ncols - 1,
           [i \in 1..Len(grid.rows) |->
              [j \in 1..(grid.ncols - 1) |->
                 IF j = 1 THEN grid.rows[i][1] ELSE grid.rows[i][j + 1]]])

\* C8: for the snake_mongoose unit and a table of two or more columns, the
\* export is the one the table without its second column produces under the
\* plain normalization (stack, sort, rewrite, drop duplicates).
C8_SecondColumnDiscarded ==
  (ScrapeSucceeded /\ call.outfile = "snake_mongoose") =>
    /\ SelectedGrid.ncols >= 2
    /\ ReturnedNames = Normalize(WithoutSecondColumn(SelectedGrid))
    /\ Get(outcome).file = Get(outcome).ret

\* C8 witness: the second column holds a name found nowhere else in the
\* table, the other columns hold a name too, and the call succeeded.
C8_Witness ==
  /\ ScrapeSucceeded
  /\ call.outfile = "snake_mongoose"
  /\ \E i \in 1..Len(SelectedGrid.rows) :
        /\ SelectedGrid.rows[i][2] # NaN
        /\ SelectedGrid.rows[i][2] \notin CellsOf(WithoutSecondColumn(SelectedGrid))
  /\ ReturnedNames # <<>>

\* C9: no value of the synonym table is a key of it, and rewriting the names
\* of an export once more changes nothing.
C9_RewriteIdempotent ==
  /\ \A k \in DOMAIN rename_map : rename_map[k] \notin DOMAIN rename_map
  /\ ScrapeSucceeded => Replace(ReturnedNames) = ReturnedNames

\* C9 witness: the table held aliases, the export holds their canonical names.
C9_Witness ==
  /\ ScrapeSucceeded
  /\ call.outfile # "snake_mongoose"
  /\ {"Mongoose Funny Car", "Mongoose 2"} \subseteq CellsOf(SelectedGrid)
  /\ Range(ReturnedNames) = {"Mongoose", "Mongoose II"}

\* ---------------------------------------- claims on create_combined_csv_file

\* The direct call of create_combined_csv_file has been made.
MergeDone == IsSome(outcome) /\ call.fn = "create_combined_csv_file"

\* The column precondition of the merger, on the two frames of the call.
ColumnPrecondition ==
  {Casting, "Year", "Series"} \subseteq (call.years.columns \cup call.series.columns)

\* The names of a frame, and the labels of kind c a frame gives a name.
NamesIn(df) ==
  IF Casting \in df.columns THEN Range(Column(df, Casting)) \ {NaN} ELSE {}
LabelsIn(df, name, c) ==
  IF {Casting, c} \subseteq df.columns
    THEN {df.rows[i][c] : i \in {j \in 1..Len(df.rows) : df.rows[j][Casting] = name}} \ {NaN}
    ELSE {}

\* A sequence of labels is ascending without repetition.
Ascending(labels) ==
  \A i \in 1..(Len(labels) - 1) : StrLess(labels[i], labels[i + 1])

\* C3: under the column precondition both files are written with one entry
\* per name of either frame; the entry's Year list is the ascending list of
\* the distinct non-null Year labels of the name over both frames, its Series
\* list likewise, and a name without a label of a kind has the empty list.
C3_CatalogPerName ==
  (MergeDone /\ ColumnPrecondition) =>
    /\ IsSome(Get(outcome).csv)
    /\ Get(outcome).json = Get(outcome).csv
    /\ LET catalog == Get(Get(outcome).csv)
       IN /\ {catalog[i][Casting] : i \in 1..Len(catalog)}
               = NamesIn(call.years) \cup NamesIn(call.series)
          /\ Len(catalog) = Cardinality(NamesIn(call.years) \cup NamesIn(call.series))
          /\ \A i \in 1..Len(catalog) : \A c \in {"Year", "Series"} :
                /\ Ascending(catalog[i][c])
                /\ Range(catalog[i][c])
                     = LabelsIn(call.years, catalog[i][Casting], c)
                       \cup LabelsIn(call.series, catalog[i][Casting], c)

\* C3 witness: the years frame has no Series column, the series frame has no
\* Year column, and the catalog has a name with two years in ascending order,
\* given in descending order, and no series.
C3_Witness ==
  /\ MergeDone
  /\ call.years.columns = {Casting, "Year"}
  /\ call.series.columns = {Casting, "Series"}
  /\ Column(call.years, "Year") = <<"1969", "1968">>
  /\ IsSome(Get(outcome).csv)
  /\ \E i \in 1..Len(Get(Get(outcome).csv)) :
        /\ Get(Get(outcome).csv)[i]["Year"] = <<"1968", "1969">>
        /\ Get(Get(outcome).csv)[i]["Series"] = <<>>

\* C6: without the column precondition neither file is written and the call
\* returns without raising.
C6_NoOutputWithoutColumns ==
  (MergeDone /\ ~ColumnPrecondition) =>
    /\ Get(outcome).csv = None
    /\ Get(outcome).json = None
    /\ ~Get(outcome).raised

\* C6 witness: the years frame has rows but no Year column, the series frame
\* has its Series column, and nothing was written.
C6_Witness ==
  /\ MergeDone
  /\ call.years.columns = {Casting}
  /\ call.years.rows # <<>>
  /\ call.series.columns = {Casting, "Series"}
  /\ Get(outcome).csv = None
  /\ Get(outcome).json = None

\* -------------------------------------------------- claims on the full run

\* The units of a batch whose scrape_url call returned a frame.
Succeeded(b) == {u \in UnitsOf(b) : IsSome(future[u].result)}

\* The label of a unit, read from the group dictionary.
LabelOf(u) == data_dict(u[1]).labels[u[2]]

\* The rows a batch owes: every name of every frame returned, with the label
\* of the unit that returned it.
RowsOwed(b) ==
  UNION {{[c \in {Casting, b} |-> IF c = Casting THEN n ELSE LabelOf(u)] :
            n \in Range(Column(Get(future[u].result), Casting))} :
           u \in Succeeded(b)}

\* C2: the frame create_csv_files returns holds exactly the rows of the units
\* that returned a frame, each with its own unit's label and each once, in
\* whatever order the futures completed; a unit that returned None adds no
\* row; when every unit returned None the frame is the empty one; the loop
\* never ends in the except clause.
C2_RowsOfSucceededUnits ==
  \A b \in Batches :
    batch[b] = "returned" =>
      /\ Range(Get(table[b]).rows) = RowsOwed(b)
      /\ Len(Get(table[b]).rows) = Cardinality(RowsOwed(b))
      /\ Succeeded(b) = {} => Get(table[b]) = DataFrame
      /\ ~aborted[b]

\* C2 witness: of the years batch the first unit returned None, the other two
\* returned frames, and the last unit's rows were collected before the
\* second's.
C2_Witness ==
  /\ batch["Year"] = "returned"
  /\ future[<<"Year", 1>>].result = None
  /\ IsSome(future[<<"Year", 2>>].result)
  /\ IsSome(future[<<"Year", NumYears>>].result)
  /\ Get(table["Year"]).rows[1]["Year"] = LabelOf(<<"Year", NumYears>>)
  /\ Get(table["Year"]).rows[Len(Get(table["Year"]).rows)]["Year"] = "1969"

\* The units of a batch whose fetch never returns.
Hung(b) == {u \in UnitsOf(b) : future[u].state = "hung"}

\* C7: a finished unit is collected, and a running batch in which at most one
\* unit fails or hangs in its fetch returns.
C7_NoUnitBlocksBatch ==
  /\ \A u \in Units :
        (future[u].state = "finished") ~> (future[u].state = "collected")
  /\ \A b \in Batches :
        (batch[b] = "running") ~> (batch[b] = "returned" \/ Cardinality(Hung(b)) > 1)

\* C10: the series batch starts after the years batch returned, the merger
\* runs after both returned, main never raises, and before its end the run
\* always has a step to take unless a fetch hangs; the two catalog files are written together, and at the
\* end they exist exactly when a year unit and a series unit returned a frame;
\* a batch whose units all returned None returns the frame without columns.
C10_FullRun ==
  /\ batch["Series"] # "pending" => batch["Year"] = "returned"
  /\ main_pc # "pool" => \A b \in Batches : batch[b] = "returned"
  /\ main_pc # "raised"
  /\ \/ main_pc = "done"
     \/ \E b \in Batches : Hung(b) # {}
     \/ \E b \in Batches : CanStartBatch(b) \/ CanReturnBatch(b)
     \/ \E u \in Units : CanStartUnit(u) \/ CanFinishUnit(u) \/ CanCollect(u)
     \/ CanMerge
  /\ IsSome(redlines_csv) <=> IsSome(redlines_json)
  /\ main_pc = "pool" => redlines_csv = None
  /\ main_pc = "done" =>
       (IsSome(redlines_csv) <=> (Succeeded("Year") # {} /\ Succeeded("Series") # {}))
  /\ \A b \in Batches :
       (batch[b] = "returned" /\ Succeeded(b) = {}) => Get(table[b]).columns = {}

\* C10 witness: the run is over, a year unit returned a frame, every series
\* unit returned None, and no catalog file exists.
C10_Witness ==
  /\ main_pc = "done"
  /\ Succeeded("Year") # {}
  /\ Succeeded("Series") = {}
  /\ \A u \in UnitsOf("Series") : future[u].state = "collected"
  /\ redlines_csv = None
  /\ redlines_json = None

====
